---- MODULE Spec2Model ----
(***************************************************************************)
(* Model of the /render handler of the ffmpeg renderer (src/main.py).      *)
(*                                                                         *)
(* Time is counted in ticks of 0.2 ms, so that the "%.3f" formatting of    *)
(* every duration handed to ffmpeg (Fmt3) is a real rounding and not the   *)
(* identity.  Python floats are modelled as exact numbers of ticks.        *)
(*                                                                         *)
(* The storage client, ffprobe and ffmpeg are external: every call to one  *)
(* of them is logged in `calls` with its arguments and may fail.  What a   *)
(* successful ffmpeg command leaves on disk is computed from the command   *)
(* line by the documented meaning of its options (-ss/-t on an input, -t   *)
(* on the output, tpad, -stream_loop, apad, -shortest, the concat          *)
(* demuxer); frame and sample granularity is not modelled.                 *)
(***************************************************************************)
EXTENDS Integers, Sequences, FiniteSets, TLC

\* Largest number of entries of the request's videos / durations lists.
MaxScenes == 3

Ms(n) == 5 * n

Min(a, b) == IF a <= b THEN a ELSE b
Max(a, b) == IF a >= b THEN a ELSE b
Abs(a) == IF a >= 0 THEN a ELSE -a

RECURSIVE SumSeq(_)
SumSeq(s) == IF s = <<>> THEN 0 ELSE s[1] + SumSeq(Tail(s))

\* f"{x:.3f}" and round(x, 3): the nearest whole millisecond (x >= 0; a
\* tick is a fifth of a millisecond, so there are no ties).
Fmt3(x) == ((x + 2) \div 5) * 5

\* An argument a command line does not carry, a file that does not exist.
NoArg == 0 - 1

\* ---- Config and thresholds ------------------------------------------------
tol == Ms(30)
SMALL_PAD_SEC == Ms(500)
\* the value a non-positive dur_sec is replaced by (0.001 s)
MinDur == Ms(1)

\* ---- Inputs ---------------------------------------------------------------
\* Declared target durations (durations_sec), in ticks: 4.0 s and 1.0004 s.
Targets == {Ms(4000), Ms(1000) + 2}
\* Legacy durations_ms entries, in whole milliseconds.
TargetsMs == {4000}
\* Native durations of the source clips, on and next to the thresholds of a
\* 4.0 s target: 10 s, 3.97 s, 3.969 s, 3.5 s, 3.499 s, 3 s, 1 s.
NativeLens == {Ms(10000), Ms(3970), Ms(3969), Ms(3500), Ms(3499), Ms(3000), Ms(1000)}
\* Durations of the voice-over track: 5 s and 12.0004 s.
AudioLens == {Ms(5000), Ms(12000) + 2}
\* The raw "fps" field of the payload.
FpsTokens == {"30", "abc"}

SeqsUpTo(S, n) == UNION {[1..m -> S] : m \in 0..n}

\* The durations part of a payload: durations_sec, else durations_ms, else
\* neither.
DurationFields ==
    {[has_sec |-> TRUE, durations_sec |-> s, has_ms |-> FALSE, durations_ms |-> <<>>] :
        s \in SeqsUpTo(Targets, MaxScenes)}
    \cup
    {[has_sec |-> FALSE, durations_sec |-> <<>>, has_ms |-> TRUE, durations_ms |-> s] :
        s \in SeqsUpTo(TargetsMs, MaxScenes)}
    \cup
    {[has_sec |-> FALSE, durations_sec |-> <<>>, has_ms |-> FALSE, durations_ms |-> <<>>]}

\* JSON payloads of POST /render.  videos is a list of nvideos references
\* (videos_is_list) or some other value of that length.
Requests ==
    {[is_dict |-> d, audio |-> a, output |-> o, videos_is_list |-> l, nvideos |-> n,
      durations |-> ds, fps |-> f, lastSceneTakesRestOfAudio |-> r] :
        d \in {TRUE}, a \in BOOLEAN, o \in BOOLEAN, l \in BOOLEAN, n \in 0..MaxScenes,
        ds \in DurationFields, f \in FpsTokens, r \in BOOLEAN}
    \cup
    {[is_dict |-> FALSE, audio |-> FALSE, output |-> FALSE, videos_is_list |-> FALSE,
      nvideos |-> 0,
      durations |-> [has_sec |-> FALSE, durations_sec |-> <<>>, has_ms |-> FALSE,
                     durations_ms |-> <<>>],
      fps |-> "30", lastSceneTakesRestOfAudio |-> FALSE]}

\* ---- Request parsing and validation (render, lines 214-244) ----------------
\* int(data.get("fps", 30)) raises on a value that is no integer.
FpsParses(r) == r.fps = "30"

\* durations_sec, or the legacy durations_ms divided by 1000.
DurationsGiven(r) == r.durations.has_sec \/ r.durations.has_ms
DurationsSec(r) ==
    IF r.durations.has_sec THEN r.durations.durations_sec
    ELSE [k \in DOMAIN r.durations.durations_ms |-> Ms(r.durations.durations_ms[k])]

\* Validate without the comparison of the two lengths (line 243).
Validate_NoLengthCheck(r) ==
    IF ~r.is_dict THEN "Invalid JSON payload"
    ELSE IF ~FpsParses(r) THEN "internal error"
    ELSE IF ~r.audio \/ r.nvideos = 0 \/ ~r.output THEN "payload missing fields"
    ELSE IF ~r.videos_is_list THEN "videos must be array"
    ELSE IF ~DurationsGiven(r) THEN "payload missing durations_sec (or durations_ms)"
    ELSE "ok"

\* The outcome of the checks in the order of the code: "ok" or the error.
Validate(r) ==
    IF ~r.is_dict THEN "Invalid JSON payload"
    ELSE IF ~FpsParses(r) THEN "internal error"
    ELSE IF ~r.audio \/ r.nvideos = 0 \/ ~r.output THEN "payload missing fields"
    ELSE IF ~r.videos_is_list THEN "videos must be array"
    ELSE IF ~DurationsGiven(r) THEN "payload missing durations_sec (or durations_ms)"
    ELSE IF Len(DurationsSec(r)) # r.nvideos THEN "length mismatch"
    ELSE "ok"

StatusOf(err) == IF err = "internal error" THEN 500 ELSE 400

\* zip(videos, durations_sec) stops at the shorter list.
NumScenes(r) == Min(r.nvideos, Len(DurationsSec(r)))

\* ---- normalize_scene (lines 61-139) ----------------------------------------
\* Branch without the tolerance: only a clip at least as long is trimmed.
Branch_NoTolerance(actual, target_sec) ==
    IF actual >= target_sec THEN "trim"
    ELSE IF target_sec - actual <= SMALL_PAD_SEC THEN "freeze-pad"
    ELSE "loop"

\* Branch with the small-gap comparison strict.
Branch_StrictPad(actual, target_sec) ==
    IF Abs(actual - target_sec) <= tol \/ actual > target_sec THEN "trim"
    ELSE IF target_sec - actual < SMALL_PAD_SEC THEN "freeze-pad"
    ELSE "loop"

\* The branch of the decision tree for keep_original_duration = False.
Branch(actual, target_sec) ==
    IF Abs(actual - target_sec) <= tol \/ actual > target_sec THEN "trim"
    ELSE IF target_sec - actual <= SMALL_PAD_SEC THEN "freeze-pad"
    ELSE "loop"

\* ReturnedDuration with the loop branch returning the probed duration.
ReturnedDuration_PreLoop(op, actual, target_sec) ==
    IF op \in {"keep", "loop"} THEN actual ELSE target_sec

\* The value normalize_scene returns.
ReturnedDuration(op, actual, target_sec) ==
    IF op = "keep" THEN actual ELSE target_sec

\* Duration of the file the ffmpeg command of a branch writes: -t caps the
\* output, tpad appends stop_duration of cloned frames, -stream_loop -1
\* repeats the input until -t.
VideoOut(op, actual, stop_duration, t) ==
    CASE op = "keep" -> actual
      [] op = "trim" -> Min(actual, t)
      [] op = "freeze-pad" -> Min(actual + stop_duration, t)
      [] op = "loop" -> t

normalize_scene(actual, target_sec, keep_original_duration) ==
    LET op == IF keep_original_duration THEN "keep" ELSE Branch(actual, target_sec)
        stop_duration == IF op = "freeze-pad" THEN Fmt3(target_sec - actual) ELSE NoArg
        t == IF op = "keep" THEN NoArg ELSE Fmt3(target_sec)
    IN  [op |-> op, stop_duration |-> stop_duration, t |-> t,
         ret |-> ReturnedDuration(op, actual, target_sec),
         out |-> VideoOut(op, actual, stop_duration, t)]

\* ---- cut_audio_segment_to_aac (lines 142-184) ------------------------------
\* audio_len is the duration of audio_in; pad_to_sec = NoArg stands for None.
\* -ss/-t before -i cut [ss, ss + t) out of what the input holds, apad
\* appends pad_dur of silence, the output -t caps the result.
cut_audio_segment_to_aac(audio_len, start_sec, dur_sec, pad_to_sec) ==
    LET d == IF dur_sec <= 0 THEN MinDur ELSE dur_sec
        ss == Fmt3(start_sec)
        t == Fmt3(d)
        cut == Min(t, Max(0, audio_len - ss))
        tail == Max(0, pad_to_sec - d)
    IN  IF pad_to_sec = NoArg
        THEN [ss |-> ss, t |-> t, pad_dur |-> NoArg, to |-> NoArg, out |-> cut]
        ELSE [ss |-> ss, t |-> t, pad_dur |-> Fmt3(tail), to |-> Fmt3(pad_to_sec),
              out |-> Min(Fmt3(pad_to_sec), cut + Fmt3(tail))]

\* ---- mux_video_audio (lines 187-205) ---------------------------------------
\* mux_video_audio without -shortest on a shorter audio: the video decides.
mux_video_audio_KeepVideo(video_dur, audio_dur) == video_dur

\* -shortest ends the output with the shorter of the two streams.
mux_video_audio(video_dur, audio_dur) == Min(video_dur, audio_dur)

\* ---- the scene loop of render (lines 275-341) ------------------------------
Remaining(total, start) == Max(0, total - start)
\* AudioSegSec without the cap to the target: all the audio that is left.
AudioSegSec_TakeRest(target_sec, remaining) == remaining
\* audio_seg_sec = min(target_sec, remaining), line 300
AudioSegSec(target_sec, remaining) == Min(target_sec, remaining)
\* NextStart advancing by the audio actually cut.
NextStart_ByAudioCut(start, target_sec, v_sec, a_sec) == start + a_sec
\* cur_start += target_sec, line 341
NextStart(start, target_sec, v_sec, a_sec) == start + target_sec

\* The concat demuxer with -c copy: the segments one after the other.
ConcatOut(segs) == SumSeq(segs)

\* ---- State ------------------------------------------------------------------
VARIABLES
    req,              \* the JSON payload
    pc,               \* where render stands
    calls,            \* every call to the storage client, ffprobe, ffmpeg so far
    response,         \* the HTTP response, status 0 while there is none
    audio_mp3,        \* tmpdir/audio.mp3: its duration, NoArg while absent
    audio_total_sec,
    i,                \* index of the scene being processed
    cur_start,
    video_raw,        \* tmpdir/video_raw_k.mp4: durations
    video_fixed,      \* tmpdir/video_fixed_k.mp4: durations
    audio_segs,       \* tmpdir/audio_seg_k.m4a: durations
    seg_paths,        \* tmpdir/seg_k.mp4: durations, in the order appended
    video_sec,
    audio_seg_sec,
    audio_window,     \* the arguments of the last cut_audio_segment_to_aac
    debug_scenes,
    final_video,      \* tmpdir/final.mp4: its duration, NoArg while absent
    uploaded          \* the duration of the blob written to output, NoArg if none

vars == <<req, pc, calls, response, audio_mp3, audio_total_sec, i, cur_start,
          video_raw, video_fixed, audio_segs, seg_paths, video_sec, audio_seg_sec,
          audio_window, debug_scenes, final_video, uploaded>>

\* the locals of render and the files of the temporary directory
locals == <<audio_mp3, audio_total_sec, i, cur_start, video_raw, video_fixed,
            audio_segs, seg_paths, video_sec, audio_seg_sec, audio_window,
            debug_scenes, final_video>>

NoResponse == [ok |-> FALSE, status |-> 0, error |-> "", videoCount |-> 0, debug |-> <<>>]
NoWindow == [start_sec |-> NoArg, dur_sec |-> NoArg, pad_to_sec |-> NoArg]

Call(tool, op, scene, ok, ss, t, pad, to) ==
    [tool |-> tool, op |-> op, scene |-> scene, ok |-> ok,
     ss |-> ss, t |-> t, pad |-> pad, to |-> to]
Plain(tool, op, scene, ok) == Call(tool, op, scene, ok, NoArg, NoArg, NoArg, NoArg)

durations_sec == DurationsSec(req)
target_sec == durations_sec[i + 1]
is_last == (i = req.nvideos - 1)

Init ==
    /\ req \in Requests
    /\ pc = "Pending"
    /\ calls = <<>>
    /\ response = NoResponse
    /\ audio_mp3 = NoArg
    /\ audio_total_sec = NoArg
    /\ i = 0
    /\ cur_start = 0
    /\ video_raw = <<>>
    /\ video_fixed = <<>>
    /\ audio_segs = <<>>
    /\ seg_paths = <<>>
    /\ video_sec = NoArg
    /\ audio_seg_sec = NoArg
    /\ audio_window = NoWindow
    /\ debug_scenes = <<>>
    /\ final_video = NoArg
    /\ uploaded = NoArg

\* Leaving the handler: the locals go, the temporary directory is removed.
Leave ==
    /\ audio_mp3' = NoArg
    /\ audio_total_sec' = NoArg
    /\ i' = 0
    /\ cur_start' = 0
    /\ video_raw' = <<>>
    /\ video_fixed' = <<>>
    /\ audio_segs' = <<>>
    /\ seg_paths' = <<>>
    /\ video_sec' = NoArg
    /\ audio_seg_sec' = NoArg
    /\ audio_window' = NoWindow
    /\ debug_scenes' = <<>>
    /\ final_video' = NoArg

\* run_cmd swallowing the failure of a command.
run_cmd_Swallow(cs, next) == next

\* run_cmd raises on a failed command, ffprobe_duration_sec and the storage
\* client raise too; what a step that ran its calls cs leads to.
run_cmd(cs, next) == IF \A k \in DOMAIN cs : cs[k].ok THEN next ELSE "Failed"

\* lines 370-375: any exception ends the request with the 500 response.
Raise(cs) ==
    /\ calls' = calls \o cs
    /\ pc' = "Failed"
    /\ response' = [ok |-> FALSE, status |-> 500, error |-> "internal error",
                    videoCount |-> 0, debug |-> <<>>]
    /\ Leave
    /\ UNCHANGED <<req, uploaded>>

\* lines 213-244
ParseAndValidate ==
    /\ pc = "Pending"
    /\ LET err == Validate(req) IN
       IF err = "ok"
       THEN /\ pc' = "Client"
            /\ UNCHANGED response
       ELSE /\ pc' = IF err = "internal error" THEN "Failed" ELSE "Rejected"
            /\ response' = [ok |-> FALSE, status |-> StatusOf(err), error |-> err,
                            videoCount |-> 0, debug |-> <<>>]
    /\ UNCHANGED <<req, calls, uploaded>>
    /\ UNCHANGED locals

\* line 246
CreateClient ==
    /\ pc = "Client"
    /\ \E ok \in BOOLEAN :
         LET cs == <<Plain("gcs", "client", NoArg, ok)>> IN
         IF run_cmd(cs, "Downloading") = "Failed" THEN Raise(cs)
         ELSE /\ pc' = "Downloading"
              /\ calls' = calls \o cs
              /\ UNCHANGED <<req, response, uploaded>>
              /\ UNCHANGED locals

\* lines 259-261
DownloadAudio ==
    /\ pc = "Downloading"
    /\ \E ok \in BOOLEAN, len \in AudioLens :
         LET cs == <<Plain("gcs", "download", NoArg, ok)>> IN
         IF run_cmd(cs, "ProbeAudio") = "Failed" THEN Raise(cs)
         ELSE /\ pc' = "ProbeAudio"
              /\ calls' = calls \o cs
              /\ audio_mp3' = len
              /\ UNCHANGED <<req, response, uploaded, audio_total_sec, i, cur_start,
                             video_raw, video_fixed, audio_segs, seg_paths, video_sec,
                             audio_seg_sec, audio_window, debug_scenes, final_video>>

\* lines 264-273
ProbeAudio ==
    /\ pc = "ProbeAudio"
    /\ \E ok \in BOOLEAN :
         LET cs == <<Plain("ffprobe", "duration", NoArg, ok)>> IN
         IF run_cmd(cs, "SceneDownload") = "Failed" THEN Raise(cs)
         ELSE /\ pc' = IF NumScenes(req) = 0 THEN "Assembling" ELSE "SceneDownload"
              /\ calls' = calls \o cs
              /\ audio_total_sec' = audio_mp3
              /\ cur_start' = 0
              /\ i' = 0
              /\ UNCHANGED <<req, response, uploaded, audio_mp3,
                             video_raw, video_fixed, audio_segs, seg_paths, video_sec,
                             audio_seg_sec, audio_window, debug_scenes, final_video>>

\* lines 275-281
DownloadScene ==
    /\ pc = "SceneDownload"
    /\ \E ok \in BOOLEAN, len \in NativeLens :
         LET cs == <<Plain("gcs", "download", i, ok)>> IN
         IF run_cmd(cs, "SceneNormalize") = "Failed" THEN Raise(cs)
         ELSE /\ pc' = "SceneNormalize"
              /\ calls' = calls \o cs
              /\ video_raw' = Append(video_raw, len)
              /\ UNCHANGED <<req, response, uploaded, audio_mp3, audio_total_sec, i,
                             cur_start, video_fixed, audio_segs, seg_paths, video_sec,
                             audio_seg_sec, audio_window, debug_scenes, final_video>>

\* lines 283-295 with normalize_scene: the probe, then one ffmpeg command
NormalizeScene ==
    /\ pc = "SceneNormalize"
    /\ \E probe_ok \in BOOLEAN, cmd_ok \in BOOLEAN :
         LET actual == video_raw[i + 1]
             n == normalize_scene(actual, target_sec, is_last)
             probe == Plain("ffprobe", "duration", i, probe_ok)
             cmd == Call("ffmpeg", n.op, i, cmd_ok, NoArg, n.t, n.stop_duration, NoArg)
             cs == IF probe_ok THEN <<probe, cmd>> ELSE <<probe>>
         IN
         IF run_cmd(cs, "SceneAudio") = "Failed" THEN Raise(cs)
         ELSE /\ pc' = "SceneAudio"
              /\ calls' = calls \o cs
              /\ video_fixed' = Append(video_fixed, n.out)
              /\ video_sec' = n.ret
              /\ UNCHANGED <<req, response, uploaded, audio_mp3, audio_total_sec, i,
                             cur_start, video_raw, audio_segs, seg_paths,
                             audio_seg_sec, audio_window, debug_scenes, final_video>>

\* lines 297-322
CutAudio ==
    /\ pc = "SceneAudio"
    /\ \E ok \in BOOLEAN :
         LET remaining == Remaining(audio_total_sec, cur_start)
             seg_sec == AudioSegSec(target_sec, remaining)
             pad_to == IF is_last THEN video_sec ELSE NoArg
             a == cut_audio_segment_to_aac(audio_mp3, cur_start, seg_sec, pad_to)
             cs == <<Call("ffmpeg", "cut-audio", i, ok, a.ss, a.t, a.pad_dur, a.to)>>
         IN
         IF run_cmd(cs, "SceneMux") = "Failed" THEN Raise(cs)
         ELSE /\ pc' = "SceneMux"
              /\ calls' = calls \o cs
              /\ audio_seg_sec' = seg_sec
              /\ audio_window' = [start_sec |-> cur_start, dur_sec |-> seg_sec,
                                  pad_to_sec |-> pad_to]
              /\ audio_segs' = Append(audio_segs, a.out)
              /\ UNCHANGED <<req, response, uploaded, audio_mp3, audio_total_sec, i,
                             cur_start, video_raw, video_fixed, seg_paths, video_sec,
                             debug_scenes, final_video>>

\* lines 324-341
MuxScene ==
    /\ pc = "SceneMux"
    /\ \E ok \in BOOLEAN :
         LET cs == <<Plain("ffmpeg", "mux", i, ok)>> IN
         IF run_cmd(cs, "SceneDownload") = "Failed" THEN Raise(cs)
         ELSE /\ pc' = IF i + 1 < NumScenes(req) THEN "SceneDownload" ELSE "Assembling"
              /\ calls' = calls \o cs
              /\ seg_paths' = Append(seg_paths,
                                     mux_video_audio(video_fixed[i + 1], audio_segs[i + 1]))
              /\ debug_scenes' = Append(debug_scenes,
                    [idx |-> i, is_last |-> is_last,
                     start_sec |-> Fmt3(cur_start),
                     target_script_sec |-> Fmt3(target_sec),
                     audio_cut_sec |-> Fmt3(audio_seg_sec),
                     video_final_sec |-> Fmt3(video_sec)])
              /\ cur_start' = NextStart(cur_start, target_sec, video_sec, audio_seg_sec)
              /\ i' = i + 1
              /\ UNCHANGED <<req, response, uploaded, audio_mp3, audio_total_sec,
                             video_raw, video_fixed, audio_segs, video_sec,
                             audio_seg_sec, audio_window, final_video>>

\* lines 343-358
Concat ==
    /\ pc = "Assembling"
    /\ \E ok \in BOOLEAN :
         LET cs == <<Plain("ffmpeg", "concat", NoArg, ok)>> IN
         IF run_cmd(cs, "Uploading") = "Failed" THEN Raise(cs)
         ELSE /\ pc' = "Uploading"
              /\ calls' = calls \o cs
              /\ final_video' = ConcatOut(seg_paths)
              /\ UNCHANGED <<req, response, uploaded, audio_mp3, audio_total_sec, i,
                             cur_start, video_raw, video_fixed, audio_segs, seg_paths,
                             video_sec, audio_seg_sec, audio_window, debug_scenes>>

\* lines 360-368
Upload ==
    /\ pc = "Uploading"
    /\ \E ok \in BOOLEAN :
         LET cs == <<Plain("gcs", "upload", NoArg, ok)>> IN
         IF run_cmd(cs, "Completed") = "Failed" THEN Raise(cs)
         ELSE /\ pc' = "Completed"
              /\ calls' = calls \o cs
              /\ uploaded' = final_video
              /\ response' = [ok |-> TRUE, status |-> 200, error |-> "",
                              videoCount |-> req.nvideos, debug |-> debug_scenes]
              /\ Leave
              /\ UNCHANGED req

Next ==
    \/ ParseAndValidate
    \/ CreateClient
    \/ DownloadAudio
    \/ ProbeAudio
    \/ DownloadScene
    \/ NormalizeScene
    \/ CutAudio
    \/ MuxScene
    \/ Concat
    \/ Upload

Spec == Init /\ [][Next]_vars

\* ---- Properties ---------------------------------------------------------------
\* the probed native duration of the scene being processed
actual_i == video_raw[i + 1]
\* the sum of the declared target durations of scenes 0..k-1
PrefixSum(k) == SumSeq(SubSeq(durations_sec, 1, k))
LastCall == calls[Len(calls)]
\* normalize_scene has returned for a scene that is not the last
NormalizedNotLast == pc = "SceneAudio" /\ ~is_last
\* cut_audio_segment_to_aac has returned for the last scene
LastSceneCut == pc = "SceneMux" /\ is_last

IsNormalizeCmd(c) == c.op \in {"keep", "trim", "freeze-pad", "loop"}
IsOkMux(c) == c.op = "mux" /\ c.ok
Field(s, f) == [k \in DOMAIN s |-> s[k][f]]

\* C1: the audio window start passed to cut_audio_segment_to_aac for scene i
\* (and written to its -ss and to the debug entry) is the sum of the declared
\* target durations of scenes 0..i-1, whatever the clips' native durations,
\* the realized video durations and the audio length are.
C1_AudioStartIsPrefixSum ==
    /\ pc = "SceneMux" =>
         /\ audio_window.start_sec = PrefixSum(i)
         /\ LastCall.ss = Fmt3(PrefixSum(i))
    /\ \A k \in DOMAIN debug_scenes : debug_scenes[k].start_sec = Fmt3(PrefixSum(k - 1))

\* C1 witness: the third scene's window starts at 8.0 s although the audio is
\* 5 s long and the first scene's video came out shorter than its target.
C1_Witness ==
    /\ pc = "SceneMux" /\ i = 2
    /\ audio_window.start_sec = Ms(8000)
    /\ audio_total_sec = Ms(5000)
    /\ video_fixed[1] < durations_sec[1]
    /\ video_raw[2] # durations_sec[2]

\* C2: every muxed segment of a scene that is not the last has the duration
\* of the scene's declared target.
C2_SegmentEqualsTarget ==
    \A k \in DOMAIN seg_paths : k < req.nvideos => seg_paths[k] = durations_sec[k]

\* C3: with keep_original_duration = False, |actual - T| <= 0.03 s or
\* actual > T issues the trim command (-t T, no tpad, no loop) and returns T.
C3_TrimBranch ==
    (NormalizedNotLast /\ (Abs(actual_i - target_sec) <= Ms(30) \/ actual_i > target_sec))
        => /\ LastCall.op = "trim"
           /\ LastCall.t = Fmt3(target_sec)
           /\ LastCall.pad = NoArg
           /\ video_sec = target_sec

\* C3 witness: a clip exactly 0.03 s shorter than its target was trimmed.
C3_Witness ==
    /\ NormalizedNotLast
    /\ target_sec - actual_i = Ms(30)
    /\ LastCall.op = "trim"
    /\ video_sec = target_sec

\* C4 as claimed: with keep_original_duration = False, 0 < T - actual <= 0.5 s
\* issues the freeze-pad command (tpad of T - actual, then -t T) and returns T.
C4_FreezePadWholeGap ==
    (NormalizedNotLast /\ 0 < target_sec - actual_i /\ target_sec - actual_i <= Ms(500))
        => /\ LastCall.op = "freeze-pad"
           /\ LastCall.pad = Fmt3(target_sec - actual_i)
           /\ LastCall.t = Fmt3(target_sec)
           /\ video_sec = target_sec

\* C4 as amended: with keep_original_duration = False, 0.03 s < T - actual <=
\* 0.5 s issues the freeze-pad command (tpad of T - actual, then -t T) and
\* returns T; a gap of at most 0.03 s is trimmed instead.
C4_FreezePadBranch ==
    (NormalizedNotLast /\ Ms(30) < target_sec - actual_i /\ target_sec - actual_i <= Ms(500))
        => /\ LastCall.op = "freeze-pad"
           /\ LastCall.pad = Fmt3(target_sec - actual_i)
           /\ LastCall.t = Fmt3(target_sec)
           /\ video_sec = target_sec

\* C4 witness: a clip exactly 0.5 s short was freeze-padded by 0.5 s.
C4_Witness ==
    /\ NormalizedNotLast
    /\ target_sec - actual_i = Ms(500)
    /\ LastCall.op = "freeze-pad"
    /\ LastCall.pad = Ms(500)
    /\ video_sec = target_sec

\* C5: with keep_original_duration = False, T - actual > 0.5 s issues the
\* loop command (-t T) and returns T, not the probed duration; so T is
\* returned from every branch of a scene that is not the last.
C5_LoopReturnsTarget ==
    /\ (NormalizedNotLast /\ target_sec - actual_i > Ms(500))
         => /\ LastCall.op = "loop"
            /\ LastCall.t = Fmt3(target_sec)
            /\ video_sec = target_sec
    /\ NormalizedNotLast => video_sec = target_sec

\* C5 witness: a 1 s clip with a 4 s target was looped and 4 s returned.
C5_Witness ==
    /\ NormalizedNotLast
    /\ actual_i = Ms(1000) /\ target_sec = Ms(4000)
    /\ LastCall.op = "loop"
    /\ video_sec = Ms(4000)

\* the payload carries a durations list whose length is not that of videos
LengthMismatch ==
    req.is_dict /\ DurationsGiven(req) /\ Len(durations_sec) # req.nvideos

C7_AbortOnFirstFailure ==
    /\ \A k \in DOMAIN calls :
         ~calls[k].ok => /\ k = Len(calls)
                         /\ pc = "Failed"
                         /\ response.status = 500
                         /\ uploaded = NoArg
    /\ \A k \in DOMAIN calls :
         calls[k].op = "upload" =>
            /\ k > 1
            /\ calls[k - 1].op = "concat" /\ calls[k - 1].ok
            /\ Field(SelectSeq(SubSeq(calls, 1, k - 1), IsOkMux), "scene")
                 = [j \in 1..req.nvideos |-> j - 1]
    /\ uploaded # NoArg => (pc = "Completed" /\ LastCall.op = "upload" /\ LastCall.ok)
    /\ pc = "Failed" => uploaded = NoArg

\* C7 witness: the mux of the second scene failed after the first scene was
\* muxed; the job is Failed.
C7_Witness ==
    /\ pc = "Failed"
    /\ Len(calls) > 1
    /\ LastCall.op = "mux" /\ LastCall.scene = 1 /\ ~LastCall.ok
    /\ uploaded = NoArg

\* The scenario of C8 after the concat: targets [4, 4, 4] s, fps 30, clips of
\* [3, 10, 1] s, 5 s of audio.
Scenario ==
    /\ pc = "Uploading"
    /\ req.fps = "30"
    /\ req.nvideos = 3
    /\ durations_sec = <<Ms(4000), Ms(4000), Ms(4000)>>
    /\ video_raw = <<Ms(3000), Ms(10000), Ms(1000)>>
    /\ audio_total_sec = Ms(5000)
NormalizeOps == Field(SelectSeq(calls, IsNormalizeCmd), "op")

C9_LastAudioEqualsVideo ==
    LastSceneCut => audio_segs[i + 1] = audio_window.pad_to_sec

\* C10 as claimed: with lastSceneTakesRestOfAudio set, the last scene's audio
\* window is max(0, audio_total_sec - the sum of the earlier targets) long.
C10_LastTakesRest ==
    (LastSceneCut /\ req.lastSceneTakesRestOfAudio)
        => audio_window.dur_sec = Max(0, audio_total_sec - PrefixSum(i))

\* C10 as amended: whatever lastSceneTakesRestOfAudio is, the last scene's
\* audio window is min(its target, max(0, audio_total_sec - the sum of the
\* earlier targets)) long.
C10_LastCappedToTarget ==
    LastSceneCut
        => audio_window.dur_sec
             = Min(target_sec, Max(0, audio_total_sec - PrefixSum(i)))

\* C10 witness: the flag is set and more audio is left than the last scene's
\* target; the window is the target.
C10_Witness ==
    /\ LastSceneCut
    /\ req.lastSceneTakesRestOfAudio
    /\ audio_total_sec - PrefixSum(i) > target_sec
    /\ audio_window.dur_sec = target_sec

====
